---- MODULE Spec2Model ----
(***************************************************************************)
(* A state-machine model of src/index.tsx: the browser invoicing and       *)
(* inventory tool.  The state is the browser's localStorage (the three     *)
(* records products, invoiceDrafts, appSettings), the tab shown by App,    *)
(* the React state of the component that tab mounts (Inventory,            *)
(* InvoiceEditor or SettingsView), the handleFileUpload, handleLogoUpload *)
(* and handleEditImageUpload invocations that are suspended at an await,   *)
(* and the product list of the Inventory of a second browser tab on the    *)
(* same store.                                                             *)
(*                                                                         *)
(* Conventions.                                                            *)
(*  - A JavaScript object is a function from its keys to their values; a   *)
(*    key whose value is undefined in memory holds Undefined, and a key    *)
(*    that is missing is not in the DOMAIN.                                *)
(*  - A nullable value (getItem's result, editingProduct) is <<>> for null *)
(*    and <<v>> for the value v.                                           *)
(*  - A stored record is represented by the value its JSON text denotes:   *)
(*    JSONStringify drops the keys whose value is undefined, as            *)
(*    JSON.stringify does, and JSONParse reads the text back.              *)
(*  - Presentation state that no handler reads (uploadStatus and its       *)
(*    clearing timer, saved, showProductPicker, showDrafts, searchQuery,   *)
(*    filteredInventory, activeRowId) is not part of the model.            *)
(***************************************************************************)
EXTENDS Integers, Sequences, FiniteSets, TLC

VARIABLES
    localStorage,    \* window.localStorage: key -> <<>> (never written) or <<record>>
    apiKey,          \* process.env.API_KEY is set
    activeTab,       \* App: activeTab
    products,        \* Inventory: products
    isUploading,     \* Inventory: isUploading
    editingProduct,  \* Inventory: editingProduct (<<>> is null)
    uploads,         \* handleFileUpload invocations suspended at an await
    data,            \* InvoiceEditor: data
    inventory,       \* InvoiceEditor: inventory
    savedDrafts,     \* InvoiceEditor: savedDrafts
    settings,        \* InvoiceEditor: settings
    svSettings,      \* SettingsView: settings
    otherProducts,   \* Inventory of a second browser tab: products (<<>> while not mounted)
    encodings,       \* handleLogoUpload / handleEditImageUpload invocations suspended at
                     \* await fileToBase64(file), each with the state its closure holds
    lastStep         \* history: the handler step taken last, with its outcome

vars == <<localStorage, apiKey, activeTab, products, isUploading, editingProduct,
          uploads, data, inventory, savedDrafts, settings, svSettings, otherProducts,
          encodings, lastStep>>

inventoryVars == <<products, isUploading, editingProduct>>
editorVars == <<data, inventory, savedDrafts, settings>>

(***************************************************************************)
(* Bounds of the model.                                                    *)
(***************************************************************************)
MaxIds == 3          \* size of the pool generateId draws from, per kind of object
MaxProducts == 2     \* longest catalog a completed extraction may produce
MaxBatch == 2        \* longest products array the extraction service returns
MaxInFlight == 2     \* most handleFileUpload invocations suspended at once
MaxItems == 2        \* longest item sequence of the in-memory invoice
MaxDrafts == 2       \* longest drafts collection
MaxQty == 2          \* largest quantity the + control is pressed up to
MaxEncodings == 1    \* most image encodings (logo, product image) suspended at once

(***************************************************************************)
(* JavaScript values.                                                      *)
(***************************************************************************)
Undefined == "undefined"
Null == <<>>
Some(v) == <<v>>
EmptyObject == [k \in {} |-> Undefined]

\* {...obj, [k]: v}
Put(obj, k, v) == [x \in DOMAIN obj \cup {k} |-> IF x = k THEN v ELSE obj[x]]

\* {...a, ...b}
Spread(a, b) == [x \in DOMAIN a \cup DOMAIN b |-> IF x \in DOMAIN b THEN b[x] ELSE a[x]]

\* obj.k for a key whose values are strings: undefined when the key is missing
Get(obj, k) == IF k \in DOMAIN obj THEN obj[k] ELSE Undefined

Has(obj, k) == k \in DOMAIN obj

SeqMap(Op(_), s) == [i \in 1..Len(s) |-> Op(s[i])]

RECURSIVE SeqFilter(_, _)
SeqFilter(Test(_), s) ==
    IF s = <<>> THEN <<>>
    ELSE IF Test(Head(s)) THEN <<Head(s)>> \o SeqFilter(Test, Tail(s))
    ELSE SeqFilter(Test, Tail(s))

Range(s) == {s[i] : i \in 1..Len(s)}

RECURSIVE SeqSum(_)
SeqSum(s) == IF s = <<>> THEN 0 ELSE Head(s) + SeqSum(Tail(s))

\* The keys of Product and InvoiceItem that may hold undefined in memory
\* (image?: string, productId?: string).
OptionalKeys == {"image", "productId"}

\* JSON.stringify of one object: a key whose value is undefined is left out.
DropUndefined(obj) ==
    [k \in {x \in DOMAIN obj : x \notin OptionalKeys \/ obj[x] # Undefined} |-> obj[k]]

\* JSON.stringify of a Product[] (the text is represented by the value it denotes)
StringifyProducts(ps) == SeqMap(DropUndefined, ps)

StringifyDraft(d) == DropUndefined([d EXCEPT !.items = SeqMap(DropUndefined, d.items)])

\* JSON.stringify of an InvoiceData[]
StringifyDrafts(ds) == SeqMap(StringifyDraft, ds)

\* JSON.parse of a stored text
JSONParse(text) == text

(***************************************************************************)
(* generateId: Math.random().toString(36).substr(2, 9).  The model draws   *)
(* the first name of a pool that no object of the same kind in the state   *)
(* carries; a collision of two random ids is not modelled.                 *)
(***************************************************************************)
IdPool == {ToString(n) : n \in 1..MaxIds}

RECURSIVE FirstFree(_, _)
FirstFree(used, n) ==
    IF n > MaxIds THEN Undefined
    ELSE IF ToString(n) \notin used THEN ToString(n)
    ELSE FirstFree(used, n + 1)

generateId(used) == FirstFree(used, 1)

IdsOf(seq) == {Get(seq[i], "id") : i \in 1..Len(seq)}

Stored(key) == IF localStorage[key] = Null THEN <<>> ELSE JSONParse(localStorage[key][1])

ProductIdsOf(items) == {Get(items[i], "productId") : i \in 1..Len(items)}

\* Every product id the state still holds, back-references of invoice items included.
UsedProductIds ==
    IdsOf(products) \cup IdsOf(inventory) \cup IdsOf(Stored("products"))
    \cup IdsOf(editingProduct)
    \cup UNION {IdsOf(uploads[i].products) : i \in 1..Len(uploads)}
    \cup ProductIdsOf(data.items)
    \cup UNION {ProductIdsOf(savedDrafts[i].items) : i \in 1..Len(savedDrafts)}
    \cup UNION {ProductIdsOf(Stored("invoiceDrafts")[i].items) :
                   i \in 1..Len(Stored("invoiceDrafts"))}

UsedDraftIds ==
    IdsOf(savedDrafts) \cup IdsOf(Stored("invoiceDrafts")) \cup {Get(data, "id")}

(***************************************************************************)
(* Program constants.                                                      *)
(***************************************************************************)
DEFAULT_COLOR == "#3b82f6"

DEFAULT_TABLE_CONFIG ==
    [imageWidth |-> 10, itemWidth |-> 15, priceWidth |-> 15, qtyWidth |-> 10,
     totalWidth |-> 10, rowPadding |-> 8, fontSize |-> 14]

\* useState<AppSettings>({...}) of SettingsView and of InvoiceEditor
InitialSettings ==
    [companyLogo |-> "", taxRate |-> 0, themeColor |-> DEFAULT_COLOR,
     showImageColumn |-> TRUE, tableConfig |-> DEFAULT_TABLE_CONFIG]

\* useState<InvoiceData>({...}) of InvoiceEditor; the date is the day of the run
InitialData ==
    [customerName |-> "Customer name :", reference |-> "Offer references",
     date |-> "05/11/2026", items |-> <<>>, footerNote |-> "shipping note"]

Tabs == {"dashboard", "invoice", "inventory", "settings"}

(***************************************************************************)
(* The settings load effect, the same code in SettingsView and in          *)
(* InvoiceEditor: setSettings({...parsed, themeColor: ..., ...}).          *)
(***************************************************************************)
\* themeColor: parsed.themeColor || DEFAULT_COLOR
loadThemeColor(parsed) ==
    IF Has(parsed, "themeColor") /\ parsed.themeColor # "" THEN parsed.themeColor
    ELSE DEFAULT_COLOR

\* showImageColumn: parsed.showImageColumn !== undefined ? parsed.showImageColumn : true
loadShowImageColumn(parsed) ==
    IF Has(parsed, "showImageColumn") THEN parsed.showImageColumn ELSE TRUE

\* tableConfig: parsed.tableConfig ? {...DEFAULT_TABLE_CONFIG, ...parsed.tableConfig}
\*                                 : DEFAULT_TABLE_CONFIG
loadTableConfig(parsed) ==
    IF Has(parsed, "tableConfig") THEN Spread(DEFAULT_TABLE_CONFIG, parsed.tableConfig)
    ELSE DEFAULT_TABLE_CONFIG

loadSettings(parsed) ==
    Spread(parsed,
           [themeColor |-> loadThemeColor(parsed),
            showImageColumn |-> loadShowImageColumn(parsed),
            tableConfig |-> loadTableConfig(parsed)])

\* The state of settings after the load effect ran against the store.
mountedSettings(store) ==
    IF store["appSettings"] # Null THEN loadSettings(JSONParse(store["appSettings"][1]))
    ELSE InitialSettings

(***************************************************************************)
(* InvoiceEditor: addItem.                                                 *)
(***************************************************************************)
\* Item ids are compared only within one item sequence (updateItem, removeItem).
UsedItemIds == IdsOf(data.items)

\* const newItem: InvoiceItem = {...} for addItem() called without a product
blankItem(id) ==
    [id |-> id, productId |-> Undefined, itemCode |-> "", description |-> "",
     price |-> 0, qty |-> 1, image |-> Undefined]

\* Mutant of seededItem: the price is not copied from the product.
seededItemWithoutPrice(id, product) ==
    [id |-> id, productId |-> product.id,
     itemCode |-> product.code,
     description |-> product.name \o " - " \o product.description,
     price |-> 0,
     qty |-> 1,
     image |-> Get(product, "image")]

\* const newItem: InvoiceItem = {...} for addItem(product)
seededItem(id, product) ==
    [id |-> id, productId |-> product.id,
     itemCode |-> product.code,                       \* product?.code || ''
     description |-> product.name \o " - " \o product.description,
     price |-> product.price,                         \* product?.price || 0
     qty |-> 1,
     image |-> Get(product, "image")]

(***************************************************************************)
(* Mounting and unmounting the three stateful components.                  *)
(***************************************************************************)
\* Inventory: useState initial values, then the load effect
InventoryMounts ==
    /\ products' = (IF localStorage["products"] # Null
                    THEN JSONParse(localStorage["products"][1]) ELSE <<>>)
    /\ isUploading' = FALSE
    /\ editingProduct' = Null

InventoryAbsent ==
    /\ products' = <<>>
    /\ isUploading' = FALSE
    /\ editingProduct' = Null

\* Mutant of EditorMounts: the mount effect runs twice, as under React.StrictMode.
EditorMountsTwice ==
    /\ inventory' = (IF localStorage["products"] # Null
                     THEN JSONParse(localStorage["products"][1]) ELSE <<>>)
    /\ settings' = mountedSettings(localStorage)
    /\ savedDrafts' = (IF localStorage["invoiceDrafts"] # Null
                       THEN JSONParse(localStorage["invoiceDrafts"][1]) ELSE <<>>)
    /\ data' = [InitialData EXCEPT
                  !.items = <<blankItem(generateId({})), blankItem(generateId({"1"}))>>]

\* InvoiceEditor: useState initial values, then the mount effect, which ends in addItem()
EditorMounts ==
    /\ inventory' = (IF localStorage["products"] # Null
                     THEN JSONParse(localStorage["products"][1]) ELSE <<>>)
    /\ settings' = mountedSettings(localStorage)
    /\ savedDrafts' = (IF localStorage["invoiceDrafts"] # Null
                       THEN JSONParse(localStorage["invoiceDrafts"][1]) ELSE <<>>)
    /\ data' = [InitialData EXCEPT
                  !.items = <<blankItem(generateId({}))>>]

EditorAbsent ==
    /\ inventory' = <<>>
    /\ settings' = InitialSettings
    /\ savedDrafts' = <<>>
    /\ data' = InitialData

SettingsMounts == svSettings' = mountedSettings(localStorage)

SettingsAbsent == svSettings' = InitialSettings

\* The components of an unmounted Inventory no longer take state updates.
Orphaned(us) == [i \in 1..Len(us) |-> [us[i] EXCEPT !.mounted = FALSE]]

(***************************************************************************)
(* App / Sidebar: setActiveTab.  The edit modal of Inventory is a fixed    *)
(* full-screen overlay (z-index above the sidebar), so no tab can be       *)
(* clicked while it is open.                                               *)
(***************************************************************************)
setActiveTab(t) ==
    /\ editingProduct = Null
    /\ t # activeTab
    /\ activeTab' = t
    /\ uploads' = Orphaned(uploads)
    /\ IF t = "inventory" THEN InventoryMounts ELSE InventoryAbsent
    /\ IF t = "invoice" THEN EditorMounts ELSE EditorAbsent
    /\ IF t = "settings" THEN SettingsMounts ELSE SettingsAbsent
    /\ encodings' = <<>>
    /\ UNCHANGED otherProducts
    /\ lastStep' = "setActiveTab"
    /\ UNCHANGED <<localStorage, apiKey>>

(***************************************************************************)
(* Inventory.                                                              *)
(***************************************************************************)
\* saveProducts: setProducts(newProducts) reaches the component only while it is
\* mounted; localStorage.setItem('products', JSON.stringify(newProducts)) always runs.
saveProducts(newProducts, mounted) ==
    /\ products' = (IF mounted THEN newProducts ELSE products)
    /\ localStorage' = [localStorage EXCEPT !["products"] = Some(StringifyProducts(newProducts))]

\* products.filter(p => p.id !== id)
withoutProduct(ps, id) == LET keep(p) == p.id # id IN SeqFilter(keep, ps)

\* Mutant of handleDelete: the lines seeded from the product are taken out of the
\* saved drafts as well.
handleDeleteCascading(id, confirmed) ==
    /\ activeTab = "inventory"
    /\ editingProduct = Null
    /\ id \in IdsOf(products)
    /\ products' = (IF confirmed THEN withoutProduct(products, id) ELSE products)
    /\ localStorage' =
         (IF ~confirmed THEN localStorage
          ELSE LET keep(item) == Get(item, "productId") # id
                   strip(d) == [d EXCEPT !.items = SeqFilter(keep, d.items)]
               IN [localStorage EXCEPT
                     !["products"] = Some(StringifyProducts(withoutProduct(products, id))),
                     !["invoiceDrafts"] =
                         IF localStorage["invoiceDrafts"] = Null THEN Null
                         ELSE Some(SeqMap(strip, localStorage["invoiceDrafts"][1]))])
    /\ UNCHANGED <<otherProducts, encodings>>
    /\ lastStep' = (IF confirmed THEN "handleDelete" ELSE "handleDelete:cancelled")
    /\ UNCHANGED <<apiKey, activeTab, isUploading, editingProduct, uploads,
                   data, inventory, savedDrafts, settings, svSettings>>

\* handleDelete, from the product card's delete button
handleDelete(id, confirmed) ==
    /\ activeTab = "inventory"
    /\ editingProduct = Null
    /\ id \in IdsOf(products)
    /\ IF confirmed
       THEN saveProducts(withoutProduct(products, id), TRUE)
       ELSE UNCHANGED <<products, localStorage>>
    /\ UNCHANGED <<otherProducts, encodings>>
    /\ lastStep' = (IF confirmed THEN "handleDelete" ELSE "handleDelete:cancelled")
    /\ UNCHANGED <<apiKey, activeTab, isUploading, editingProduct, uploads,
                   data, inventory, savedDrafts, settings, svSettings>>

(***************************************************************************)
(* The Inventory of a second browser tab on the same origin.  It is another *)
(* instance of the same component: its own products state, the same         *)
(* localStorage.                                                            *)
(***************************************************************************)
\* useEffect(() => { ... setProducts(JSON.parse(saved)) }, []) in the second tab
otherTabMounts ==
    /\ otherProducts = Null
    /\ otherProducts' = Some(IF localStorage["products"] # Null
                             THEN JSONParse(localStorage["products"][1]) ELSE <<>>)
    /\ lastStep' = "otherTab:mount"
    /\ UNCHANGED <<localStorage, apiKey, activeTab, products, isUploading, editingProduct,
                   uploads, data, inventory, savedDrafts, settings, svSettings, encodings>>

\* the second tab leaves its inventory view
otherTabUnmounts ==
    /\ otherProducts # Null
    /\ otherProducts' = Null
    /\ lastStep' = "otherTab:unmount"
    /\ UNCHANGED <<localStorage, apiKey, activeTab, products, isUploading, editingProduct,
                   uploads, data, inventory, savedDrafts, settings, svSettings, encodings>>

\* Mutant of otherTabHandleDelete: the catalog is read again from the store before
\* the product is filtered out.
otherTabHandleDeleteRereading(id) ==
    /\ otherProducts # Null
    /\ id \in IdsOf(otherProducts[1])
    /\ LET fresh == IF localStorage["products"] # Null
                    THEN JSONParse(localStorage["products"][1]) ELSE <<>>
       IN /\ otherProducts' = Some(withoutProduct(fresh, id))
          /\ localStorage' = [localStorage EXCEPT
                                !["products"] = Some(StringifyProducts(withoutProduct(fresh, id)))]
    /\ lastStep' = "otherTab:handleDelete"
    /\ UNCHANGED <<apiKey, activeTab, products, isUploading, editingProduct,
                   uploads, data, inventory, savedDrafts, settings, svSettings, encodings>>

\* handleDelete (confirmed) in the second tab: saveProducts(products.filter(...))
\* on that tab's products
otherTabHandleDelete(id) ==
    /\ otherProducts # Null
    /\ id \in IdsOf(otherProducts[1])
    /\ otherProducts' = Some(withoutProduct(otherProducts[1], id))
    /\ localStorage' = [localStorage EXCEPT
                          !["products"] =
                              Some(StringifyProducts(withoutProduct(otherProducts[1], id)))]
    /\ lastStep' = "otherTab:handleDelete"
    /\ UNCHANGED <<apiKey, activeTab, products, isUploading, editingProduct,
                   uploads, data, inventory, savedDrafts, settings, svSettings, encodings>>

\* onClick={() => setEditingProduct(product)}
openEdit(i) ==
    /\ activeTab = "inventory"
    /\ editingProduct = Null
    /\ i \in 1..Len(products)
    /\ editingProduct' = Some(products[i])
    /\ UNCHANGED <<otherProducts, encodings>>
    /\ lastStep' = "openEdit"
    /\ UNCHANGED <<localStorage, apiKey, activeTab, products, isUploading, uploads,
                   data, inventory, savedDrafts, settings, svSettings>>

\* What the user types into the edit modal: <<field, value>>.  The price input
\* stores parseFloat(e.target.value) || 0.
EditInputs == {<<"price", 50>>, <<"name", "Pump XL">>}

\* onChange={e => setEditingProduct({...editingProduct, [field]: value})}
editField(field, value) ==
    /\ activeTab = "inventory"
    /\ editingProduct # Null
    /\ editingProduct[1][field] # value
    /\ editingProduct' = Some(Put(editingProduct[1], field, value))
    /\ UNCHANGED <<otherProducts, encodings>>
    /\ lastStep' = "editField"
    /\ UNCHANGED <<localStorage, apiKey, activeTab, products, isUploading, uploads,
                   data, inventory, savedDrafts, settings, svSettings>>

\* Mutant of withEdited: the edited product is taken out and put at the end.
withEditedMovedLast(ps, edited) ==
    LET others(p) == p.id # edited.id
    IN IF edited.id \in IdsOf(ps) THEN Append(SeqFilter(others, ps), edited) ELSE ps

\* products.map(p => p.id === editingProduct.id ? editingProduct : p)
withEdited(ps, edited) == LET swap(p) == IF p.id = edited.id THEN edited ELSE p
                          IN SeqMap(swap, ps)

handleEditSave ==
    /\ activeTab = "inventory"
    /\ editingProduct # Null
    /\ saveProducts(withEdited(products, editingProduct[1]), TRUE)
    /\ editingProduct' = Null
    /\ UNCHANGED <<otherProducts, encodings>>
    /\ lastStep' = "handleEditSave"
    /\ UNCHANGED <<apiKey, activeTab, isUploading, uploads,
                   data, inventory, savedDrafts, settings, svSettings>>

\* onClick={() => setEditingProduct(null)}: the modal's X and cancel buttons
cancelEdit ==
    /\ activeTab = "inventory"
    /\ editingProduct # Null
    /\ editingProduct' = Null
    /\ UNCHANGED <<otherProducts, encodings>>
    /\ lastStep' = "cancelEdit"
    /\ UNCHANGED <<localStorage, apiKey, activeTab, products, isUploading, uploads,
                   data, inventory, savedDrafts, settings, svSettings>>

(***************************************************************************)
(* Inventory: handleFileUpload.  The handler runs to its first await in    *)
(* one step (handleFileUploadStart) and is then suspended; it resumes      *)
(* either because an awaited promise rejected or the Word file had no text *)
(* (handleFileUploadThrows) or with the service's response                 *)
(* (handleFileUploadResponse).  `products` inside the handler is the       *)
(* constant of the render in which the handler was created, so a suspended *)
(* invocation keeps the list it was started with.                          *)
(***************************************************************************)
DocxType == "application/vnd.openxmlformats-officedocument.wordprocessingml.document"

Files ==
    {[ext |-> "png", type |-> "image/png"],
     [ext |-> "pdf", type |-> "application/pdf"],
     [ext |-> "docx", type |-> DocxType]}

\* file.name.endsWith('.docx') || file.type === '...wordprocessingml.document'
isWord(file) == file.ext = "docx" \/ file.type = DocxType

\* file.type.startsWith('image')
isImageType(file) == file.type \in {"image/png", "image/jpeg"}

\* fileToBase64(file): the data URL of the file
fileToBase64(file) == "data:" \o file.type \o ";base64"

\* The objects the service may put in its products array; schema fields are optional.
\* NullEntry stands for a null array element, on which p.code throws.
NullEntry == [null |-> TRUE]

Entries ==
    {[code |-> "A1", name |-> "Pump", description |-> "steel", price |-> 100],
     EmptyObject,
     NullEntry}

Batches == UNION {[1..n -> Entries] : n \in 0..MaxBatch}

\* response.text: empty, not JSON, JSON without a products array, or {products: [...]}
Responses ==
    {[kind |-> k, products |-> <<>>] : k \in {"empty", "notJSON", "noArray"}}
    \cup {[kind |-> "array", products |-> b] : b \in Batches}

\* v || d for a string field of an entry
OrString(p, k, d) == IF Has(p, k) /\ p[k] # "" THEN p[k] ELSE d

\* p.price || 0
OrNumber(p, k, d) == IF Has(p, k) /\ p[k] # 0 THEN p[k] ELSE d

\* image: (!isWord && base64Data && file.type.startsWith('image')) ? base64Data : undefined
newItemImage(file) ==
    IF ~isWord(file) /\ isImageType(file) THEN fileToBase64(file) ELSE Undefined

\* Mutant of newItem: the uploaded file is attached whatever its kind.
newItemWithAnyFile(p, id, file) ==
    [id |-> id,
     code |-> OrString(p, "code", "N/A"),
     name |-> OrString(p, "name", "New product"),
     description |-> OrString(p, "description", ""),
     price |-> OrNumber(p, "price", 0),
     image |-> fileToBase64(file)]

\* One element of data.products.map((p: any) => ({ id: generateId(), ... }))
newItem(p, id, file) ==
    [id |-> id,
     code |-> OrString(p, "code", "N/A"),
     name |-> OrString(p, "name", "New product"),
     description |-> OrString(p, "description", ""),
     price |-> OrNumber(p, "price", 0),
     image |-> newItemImage(file)]

\* data.products.map(...): one product per entry, each with an id of its own
RECURSIVE newItems(_, _, _)
newItems(entries, used, file) ==
    IF entries = <<>> THEN <<>>
    ELSE LET id == generateId(used)
         IN <<newItem(Head(entries), id, file)>>
            \o newItems(Tail(entries), used \cup {id}, file)

Without(seq, i) == [j \in 1..(Len(seq) - 1) |-> IF j < i THEN seq[j] ELSE seq[j + 1]]

\* Mutant of handleFileUploadStart: the check of process.env.API_KEY is left out.
handleFileUploadStartUnchecked(file) ==
    /\ activeTab = "inventory"
    /\ editingProduct = Null
    /\ ~isUploading
    /\ Len(uploads) < MaxInFlight
    /\ isUploading' = TRUE
    /\ uploads' = Append(uploads, [products |-> products, file |-> file, mounted |-> TRUE])
    /\ UNCHANGED <<otherProducts, encodings>>
    /\ lastStep' = "handleFileUpload:await"
    /\ UNCHANGED <<localStorage, apiKey, activeTab, products, editingProduct,
                   data, inventory, savedDrafts, settings, svSettings>>

handleFileUploadStart(file) ==
    /\ activeTab = "inventory"
    /\ editingProduct = Null
    /\ ~isUploading                        \* the button is disabled={isUploading}
    /\ Len(uploads) < MaxInFlight
    /\ IF ~apiKey
       THEN UNCHANGED <<isUploading, uploads>>       \* alert("API Key is missing!"); return
       ELSE /\ isUploading' = TRUE
            /\ uploads' = Append(uploads, [products |-> products, file |-> file,
                                           mounted |-> TRUE])
    /\ UNCHANGED <<otherProducts, encodings>>
    /\ lastStep' = (IF apiKey THEN "handleFileUpload:await" ELSE "handleFileUpload:noKey")
    /\ UNCHANGED <<localStorage, apiKey, activeTab, products, editingProduct,
                   data, inventory, savedDrafts, settings, svSettings>>

\* finally { setIsUploading(false); ... }
uploadFinally(i) ==
    /\ isUploading' = (IF uploads[i].mounted THEN FALSE ELSE isUploading)
    /\ uploads' = Without(uploads, i)

\* catch (error) {...} finally {...}: fileToBase64, file.arrayBuffer, extractRawText or
\* generateContent rejected, or textContent was empty
handleFileUploadThrows(i) ==
    /\ i \in 1..Len(uploads)
    /\ uploadFinally(i)
    /\ UNCHANGED <<otherProducts, encodings>>
    /\ lastStep' = "handleFileUpload:catch"
    /\ UNCHANGED <<localStorage, apiKey, activeTab, products, editingProduct,
                   data, inventory, savedDrafts, settings, svSettings>>

\* JSON.parse(text) throws, or p.code is read on a null element of the array
responseThrows(response) ==
    \/ response.kind = "notJSON"
    \/ /\ response.kind = "array"
       /\ \E j \in 1..Len(response.products) : response.products[j] = NullEntry

\* How the handler leaves the try block on `response`
uploadOutcome(response) ==
    IF responseThrows(response) THEN "handleFileUpload:catch"
    ELSE IF response.kind = "array" THEN "handleFileUpload:saved"
    ELSE "handleFileUpload:nothing"

\* Mutant of uploadSaves: the list is written through before the response is looked at.
uploadSavesBeforeParsing(u, response) ==
    saveProducts(u.products
                 \o (IF response.kind = "array" /\ ~responseThrows(response)
                     THEN newItems(response.products, UsedProductIds, u.file) ELSE <<>>),
                 u.mounted)

\* The store and the list after the lines that follow `const text = response.text`
uploadSaves(u, response) ==
    IF response.kind = "array" /\ ~responseThrows(response)
    THEN saveProducts(u.products \o newItems(response.products, UsedProductIds, u.file),
                      u.mounted)
    ELSE UNCHANGED <<products, localStorage>>

handleFileUploadResponse(i, response) ==
    /\ i \in 1..Len(uploads)
    /\ Len(uploads[i].products) + Len(response.products) <= MaxProducts
    /\ Cardinality(IdPool \ UsedProductIds) >= Len(response.products)
    /\ uploadSaves(uploads[i], response)
    /\ uploadFinally(i)
    /\ UNCHANGED <<otherProducts, encodings>>
    /\ lastStep' = uploadOutcome(response)
    /\ UNCHANGED <<apiKey, activeTab, editingProduct,
                   data, inventory, savedDrafts, settings, svSettings>>

(***************************************************************************)
(* Inventory: handleEditImageUpload, from the file input of the edit modal. *)
(***************************************************************************)
\* handleEditImageUpload up to await fileToBase64(file), entered when a file was
\* chosen and editingProduct is set: the continuation keeps the editingProduct of
\* the render in which the file was chosen.
handleEditImageUploadStart(file) ==
    /\ activeTab = "inventory"
    /\ editingProduct # Null
    /\ Len(encodings) < MaxEncodings
    /\ encodings' = Append(encodings, [handler |-> "handleEditImageUpload", file |-> file,
                                        closure |-> editingProduct[1]])
    /\ lastStep' = "handleEditImageUpload:await"
    /\ UNCHANGED <<localStorage, apiKey, activeTab, products, isUploading, editingProduct,
                   uploads, data, inventory, savedDrafts, settings, svSettings,
                   otherProducts>>

\* handleEditImageUpload after the await:
\* setEditingProduct({...editingProduct, image: base64}), or nothing when the
\* FileReader failed and the promise was rejected.
handleEditImageUploadDone(i, resolved) ==
    /\ activeTab = "inventory"
    /\ i \in 1..Len(encodings)
    /\ encodings[i].handler = "handleEditImageUpload"
    /\ editingProduct' = (IF resolved
                          THEN Some(Put(encodings[i].closure, "image",
                                        fileToBase64(encodings[i].file)))
                          ELSE editingProduct)
    /\ encodings' = Without(encodings, i)
    /\ lastStep' = (IF resolved THEN "handleEditImageUpload"
                    ELSE "handleEditImageUpload:rejected")
    /\ UNCHANGED <<localStorage, apiKey, activeTab, products, isUploading, uploads,
                   data, inventory, savedDrafts, settings, svSettings, otherProducts>>

(***************************************************************************)
(* SettingsView.                                                           *)
(***************************************************************************)
\* What the user enters in the settings form: <<key, value>>.  The tax input stores
\* parseFloat(e.target.value) || 0; a colour is one of the `colors` buttons.
SettingsInputs == {<<"taxRate", 10>>, <<"taxRate", 0>>, <<"themeColor", "#ef4444">>}

\* setSettings({...settings, [key]: value})
setSettingsField(key, value) ==
    /\ activeTab = "settings"
    /\ ~(Has(svSettings, key) /\ svSettings[key] = value)
    /\ svSettings' = Put(svSettings, key, value)
    /\ UNCHANGED <<otherProducts, encodings>>
    /\ lastStep' = "setSettings"
    /\ UNCHANGED <<localStorage, apiKey, activeTab, products, isUploading, editingProduct,
                   uploads, data, inventory, savedDrafts, settings>>

\* setSettings({...settings, showImageColumn: !settings.showImageColumn})
toggleShowImageColumn ==
    /\ activeTab = "settings"
    /\ svSettings' = Put(svSettings, "showImageColumn", ~svSettings.showImageColumn)
    /\ UNCHANGED <<otherProducts, encodings>>
    /\ lastStep' = "setSettings"
    /\ UNCHANGED <<localStorage, apiKey, activeTab, products, isUploading, editingProduct,
                   uploads, data, inventory, savedDrafts, settings>>

\* Slider positions the user drags to: <<key, value>>, each within the slider's range.
TableConfigInputs == {<<"imageWidth", 30>>, <<"qtyWidth", 20>>}

\* Mutant of updateTableConfig: the change is saved as it is made.
updateTableConfigSaving(key, value) ==
    /\ activeTab = "settings"
    /\ svSettings.tableConfig[key] # value
    /\ svSettings' = Put(svSettings, "tableConfig", Put(svSettings.tableConfig, key, value))
    /\ localStorage' = [localStorage EXCEPT !["appSettings"] = Some(svSettings')]
    /\ UNCHANGED <<otherProducts, encodings>>
    /\ lastStep' = "updateTableConfig"
    /\ UNCHANGED <<apiKey, activeTab, products, isUploading, editingProduct,
                   uploads, data, inventory, savedDrafts, settings>>

updateTableConfig(key, value) ==
    /\ activeTab = "settings"
    /\ svSettings.tableConfig[key] # value
    /\ svSettings' = Put(svSettings, "tableConfig", Put(svSettings.tableConfig, key, value))
    /\ UNCHANGED <<otherProducts, encodings>>
    /\ lastStep' = "updateTableConfig"
    /\ UNCHANGED <<localStorage, apiKey, activeTab, products, isUploading, editingProduct,
                   uploads, data, inventory, savedDrafts, settings>>

\* localStorage.setItem('appSettings', JSON.stringify(settings))
handleSave ==
    /\ activeTab = "settings"
    /\ localStorage' = [localStorage EXCEPT !["appSettings"] = Some(svSettings)]
    /\ UNCHANGED <<otherProducts, encodings>>
    /\ lastStep' = "handleSave"
    /\ UNCHANGED <<apiKey, activeTab, products, isUploading, editingProduct,
                   uploads, data, inventory, savedDrafts, settings, svSettings>>

\* handleLogoUpload up to await fileToBase64(file): the continuation keeps the
\* settings of the render in which the file was chosen.
handleLogoUploadStart(file) ==
    /\ activeTab = "settings"
    /\ Len(encodings) < MaxEncodings
    /\ encodings' = Append(encodings, [handler |-> "handleLogoUpload", file |-> file,
                                        closure |-> svSettings])
    /\ lastStep' = "handleLogoUpload:await"
    /\ UNCHANGED <<localStorage, apiKey, activeTab, products, isUploading, editingProduct,
                   uploads, data, inventory, savedDrafts, settings, svSettings,
                   otherProducts>>

\* handleLogoUpload after the await: setSettings({...settings, companyLogo: base64}),
\* or nothing when the FileReader failed and the promise was rejected.
handleLogoUploadDone(i, resolved) ==
    /\ activeTab = "settings"
    /\ i \in 1..Len(encodings)
    /\ encodings[i].handler = "handleLogoUpload"
    /\ svSettings' = (IF resolved
                      THEN Put(encodings[i].closure, "companyLogo",
                               fileToBase64(encodings[i].file))
                      ELSE svSettings)
    /\ encodings' = Without(encodings, i)
    /\ lastStep' = (IF resolved THEN "handleLogoUpload" ELSE "handleLogoUpload:rejected")
    /\ UNCHANGED <<localStorage, apiKey, activeTab, products, isUploading, editingProduct,
                   uploads, data, inventory, savedDrafts, settings, otherProducts>>

\* const backupData = {...} of handleBackup: JSON.parse(getItem(key) || '[]' / '{}')
backupData(store) ==
    [products |-> (IF store["products"] # Null
                   THEN JSONParse(store["products"][1]) ELSE <<>>),
     drafts |-> (IF store["invoiceDrafts"] # Null
                 THEN JSONParse(store["invoiceDrafts"][1]) ELSE <<>>),
     settings |-> (IF store["appSettings"] # Null
                   THEN JSONParse(store["appSettings"][1]) ELSE EmptyObject)]

\* A file offered to the restore input: text that is JSON (of `data`) or is not.
JSONFile(obj) == [json |-> TRUE, data |-> obj]
NotJSONFile == [json |-> FALSE, data |-> EmptyObject]

\* handleBackup: the downloaded file holds JSON.stringify(backupData, null, 2)
backupFile(store) == JSONFile(backupData(store))

\* handleBackup changes no state of the program: it hands the file to the browser.
handleBackup ==
    /\ activeTab = "settings"
    /\ UNCHANGED <<otherProducts, encodings>>
    /\ lastStep' = "handleBackup"
    /\ UNCHANGED <<localStorage, apiKey, activeTab, products, isUploading, editingProduct,
                   uploads, data, inventory, savedDrafts, settings, svSettings>>

\* Backup files written by earlier versions of the settings record.
LegacyFiles ==
    {JSONFile([settings |-> [companyLogo |-> "", taxRate |-> 10]]),
     JSONFile([products |-> <<>>, drafts |-> <<>>,
               settings |-> [companyLogo |-> "", taxRate |-> 10, themeColor |-> "#ef4444",
                             showImageColumn |-> FALSE,
                             tableConfig |-> [imageWidth |-> 20, itemWidth |-> 15,
                                              priceWidth |-> 15, qtyWidth |-> 10,
                                              totalWidth |-> 10]]])}

\* A file may hold a field whose value is null ({"settings": null}): `nulls` names
\* these fields and `data` holds the others.  if (data.<field>) is false for them.
NullFields(file) == IF "nulls" \in DOMAIN file THEN file.nulls ELSE {}

\* A hand-made backup that holds a catalog and no settings
NullSettingsFile ==
    [json |-> TRUE,
     data |-> [products |-> <<[id |-> "3", code |-> "B2", name |-> "Valve",
                               description |-> "", price |-> 50]>>,
               drafts |-> <<>>],
     nulls |-> {"settings"}]

\* Mutant of restoreKey: a key whose field the file lacks is emptied.
restoreKeyOrClear(old, file, field) ==
    IF Has(file.data, field) THEN Some(file.data[field]) ELSE Null

\* if (data.<field>) localStorage.setItem(key, JSON.stringify(data.<field>))
restoreKey(old, file, field) ==
    IF Has(file.data, field) THEN Some(file.data[field]) ELSE old

\* The store after reader.onload ran on `file`
restored(store, file) ==
    IF file.json
    THEN [products |-> restoreKey(store["products"], file, "products"),
          invoiceDrafts |-> restoreKey(store["invoiceDrafts"], file, "drafts"),
          appSettings |-> restoreKey(store["appSettings"], file, "settings")]
    ELSE store

\* handleRestore with reader.onload; after a successful restore window.location.reload()
\* starts the page again: App shows the dashboard and suspended handlers are gone.
handleRestore(file) ==
    /\ activeTab = "settings"
    /\ localStorage' = restored(localStorage, file)
    /\ IF file.json
       THEN /\ activeTab' = "dashboard"
            /\ uploads' = <<>>
            /\ SettingsAbsent
       ELSE UNCHANGED <<activeTab, uploads, svSettings>>
    /\ encodings' = (IF file.json THEN <<>> ELSE encodings)
    /\ UNCHANGED otherProducts
    /\ lastStep' = (IF file.json THEN "handleRestore" ELSE "handleRestore:catch")
    /\ UNCHANGED <<apiKey, products, isUploading, editingProduct,
                   data, inventory, savedDrafts, settings>>

(***************************************************************************)
(* InvoiceEditor.                                                          *)
(***************************************************************************)
\* setData(prev => ({...prev, items: [...prev.items, newItem]})), from "add row"
\* (product = Null) or from the product picker (product = Some(p), p of inventory)
addItem(product) ==
    /\ activeTab = "invoice"
    /\ Len(data.items) < MaxItems
    /\ LET id == generateId(UsedItemIds)
           item == IF product = Null THEN blankItem(id) ELSE seededItem(id, product[1])
       IN data' = [data EXCEPT !.items = Append(data.items, item)]
    /\ UNCHANGED <<otherProducts, encodings>>
    /\ lastStep' = "addItem"
    /\ UNCHANGED <<localStorage, apiKey, activeTab, products, isUploading, editingProduct,
                   uploads, inventory, savedDrafts, settings, svSettings>>

\* Mutant of withItemField: the id is not compared.
withItemFieldInEveryItem(items, id, field, value) ==
    LET upd(item) == Put(item, field, value) IN SeqMap(upd, items)

\* prev.items.map(item => item.id === id ? {...item, [field]: value} : item)
withItemField(items, id, field, value) ==
    LET upd(item) == IF item.id = id THEN Put(item, field, value) ELSE item
    IN SeqMap(upd, items)

updateItem(id, field, value) ==
    /\ activeTab = "invoice"
    /\ data' = [data EXCEPT !.items = withItemField(data.items, id, field, value)]
    /\ UNCHANGED <<otherProducts, encodings>>
    /\ lastStep' = "updateItem"
    /\ UNCHANGED <<localStorage, apiKey, activeTab, products, isUploading, editingProduct,
                   uploads, inventory, savedDrafts, settings, svSettings>>

\* Values typed into a row: <<field, value>>; the price input stores
\* parseFloat(e.target.value) || 0.
ItemInputs == {<<"price", 40>>}

\* onChange={(e) => updateItem(item.id, field, ...)}
typeItemField(i, field, value) ==
    /\ i \in 1..Len(data.items)
    /\ data.items[i][field] # value
    /\ updateItem(data.items[i].id, field, value)

\* Mutant of decrementQty: the result is not clamped at 0.
decrementQtyUnclamped(i) ==
    /\ i \in 1..Len(data.items)
    /\ updateItem(data.items[i].id, "qty", data.items[i].qty - 1)

\* onClick={() => updateItem(item.id, 'qty', Math.max(0, item.qty - 1))}
decrementQty(i) ==
    /\ i \in 1..Len(data.items)
    /\ updateItem(data.items[i].id, "qty",
                  IF data.items[i].qty - 1 > 0 THEN data.items[i].qty - 1 ELSE 0)

\* onClick={() => updateItem(item.id, 'qty', item.qty + 1)}
incrementQty(i) ==
    /\ i \in 1..Len(data.items)
    /\ data.items[i].qty < MaxQty
    /\ updateItem(data.items[i].id, "qty", data.items[i].qty + 1)

\* prev.items.filter(i => i.id !== id)
withoutItem(items, id) == LET keep(item) == item.id # id IN SeqFilter(keep, items)

removeItem(id) ==
    /\ activeTab = "invoice"
    /\ id \in IdsOf(data.items)
    /\ data' = [data EXCEPT !.items = withoutItem(data.items, id)]
    /\ UNCHANGED <<otherProducts, encodings>>
    /\ lastStep' = "removeItem"
    /\ UNCHANGED <<localStorage, apiKey, activeTab, products, isUploading, editingProduct,
                   uploads, inventory, savedDrafts, settings, svSettings>>

\* Header fields the user retypes: <<field, value>>
FieldInputs == {<<"reference", "INV-7">>}

\* Mutant of updateField: the field is assigned on the object itself, which after
\* setData(draft) is the entry of savedDrafts.
updateFieldInPlace(field, value) ==
    /\ activeTab = "invoice"
    /\ data[field] # value
    /\ data' = Put(data, field, value)
    /\ savedDrafts' = (LET assign(d) == IF Has(data, "id") /\ d.id = data.id
                                        THEN Put(d, field, value) ELSE d
                       IN SeqMap(assign, savedDrafts))
    /\ UNCHANGED <<otherProducts, encodings>>
    /\ lastStep' = "updateField"
    /\ UNCHANGED <<localStorage, apiKey, activeTab, products, isUploading, editingProduct,
                   uploads, inventory, settings, svSettings>>

\* setData(prev => ({...prev, [field]: value}))
updateField(field, value) ==
    /\ activeTab = "invoice"
    /\ data[field] # value
    /\ data' = Put(data, field, value)
    /\ UNCHANGED <<otherProducts, encodings>>
    /\ lastStep' = "updateField"
    /\ UNCHANGED <<localStorage, apiKey, activeTab, products, isUploading, editingProduct,
                   uploads, inventory, savedDrafts, settings, svSettings>>

\* Mutant of calculateSubtotal: the quantity is left out of the line total.
calculateSubtotalOfPrices(items) ==
    LET lineTotal(item) == item.price IN SeqSum(SeqMap(lineTotal, items))

\* data.items.reduce((acc, item) => acc + (item.price * item.qty), 0)
calculateSubtotal(items) ==
    LET lineTotal(item) == item.price * item.qty IN SeqSum(SeqMap(lineTotal, items))

\* A JavaScript number in hundredths, or NaN
Number(n) == [nan |-> FALSE, hundredths |-> n]
NaN == [nan |-> TRUE]

\* calculateTotal, in hundredths so that taxRate / 100 stays exact:
\* subtotal + subtotal * (settings.taxRate / 100).  settings.taxRate is undefined when
\* the key is missing, undefined / 100 is NaN, and NaN spreads through * and +.
calculateTotal(items, s) ==
    IF ~Has(s, "taxRate") THEN NaN
    ELSE LET subtotal == calculateSubtotal(items)
             taxAmount == subtotal * s.taxRate
         IN Number(subtotal * 100 + taxAmount)

\* The tax line of the totals box, in hundredths:
\* calculateSubtotal() * settings.taxRate / 100
taxAmount(items, s) ==
    IF ~Has(s, "taxRate") THEN NaN
    ELSE Number(calculateSubtotal(items) * s.taxRate)

\* const usedWidth = (settings.showImageColumn ? tableConfig.imageWidth : 0) + ...
usedWidth(s) ==
    (IF s.showImageColumn THEN s.tableConfig.imageWidth ELSE 0)
    + s.tableConfig.itemWidth + s.tableConfig.priceWidth
    + s.tableConfig.qtyWidth + s.tableConfig.totalWidth

\* Math.max(a, b)
MathMax(a, b) == IF a >= b THEN a ELSE b

\* Mutant of descriptionWidth: the lower limit is left out.
descriptionWidthUnclamped(s) == 100 - usedWidth(s)

\* const descriptionWidth = Math.max(10, 100 - usedWidth)
descriptionWidth(s) == MathMax(10, 100 - usedWidth(s))

\* savedDrafts.findIndex(d => d.id === draftId): 0 stands for -1
RECURSIVE findIndexFrom(_, _, _)
findIndexFrom(ds, id, i) ==
    IF i > Len(ds) THEN 0
    ELSE IF Get(ds[i], "id") = id THEN i
    ELSE findIndexFrom(ds, id, i + 1)

findIndex(ds, id) == findIndexFrom(ds, id, 1)

\* Mutant of draftIdFor: every save takes a new id.
draftIdAlwaysNew(d) == generateId(UsedDraftIds)

\* const draftId = data.id || generateId()
draftIdFor(d) == IF Has(d, "id") /\ d.id # "" THEN d.id ELSE generateId(UsedDraftIds)

\* const draftToSave = {...data, id: draftId, savedAt: new Date().toLocaleString()}
draftToSave(d, now) == Put(Put(d, "id", draftIdFor(d)), "savedAt", now)

\* Mutant of updatedDrafts: the draft is always put in front.
updatedDraftsPrepending(ds, draft) == <<draft>> \o ds

\* let updatedDrafts; ... of handleSaveDraft
updatedDrafts(ds, draft) ==
    LET existingIndex == findIndex(ds, draft.id)
    IN IF existingIndex >= 1
       THEN [ds EXCEPT ![existingIndex] = draft]
       ELSE <<draft>> \o ds

\* Mutant of handleSaveDraft: setData(draftToSave) is left out.
handleSaveDraftKeepingData(now) ==
    /\ activeTab = "invoice"
    /\ draftIdFor(data) # Undefined
    /\ Len(updatedDrafts(savedDrafts, draftToSave(data, now))) <= MaxDrafts
    /\ LET draft == draftToSave(data, now)
           drafts == updatedDrafts(savedDrafts, draft)
       IN /\ savedDrafts' = drafts
          /\ localStorage' = [localStorage EXCEPT
                                !["invoiceDrafts"] = Some(StringifyDrafts(drafts))]
    /\ UNCHANGED <<otherProducts, encodings>>
    /\ lastStep' = "handleSaveDraft"
    /\ UNCHANGED <<apiKey, activeTab, products, isUploading, editingProduct,
                   uploads, data, inventory, settings, svSettings>>

handleSaveDraft(now) ==
    /\ activeTab = "invoice"
    /\ draftIdFor(data) # Undefined
    /\ Len(updatedDrafts(savedDrafts, draftToSave(data, now))) <= MaxDrafts
    /\ LET draft == draftToSave(data, now)
           drafts == updatedDrafts(savedDrafts, draft)
       IN /\ savedDrafts' = drafts
          /\ localStorage' = [localStorage EXCEPT
                                !["invoiceDrafts"] = Some(StringifyDrafts(drafts))]
          /\ data' = draft
    /\ UNCHANGED <<otherProducts, encodings>>
    /\ lastStep' = "handleSaveDraft"
    /\ UNCHANGED <<apiKey, activeTab, products, isUploading, editingProduct,
                   uploads, inventory, settings, svSettings>>

handleLoadDraft(i, confirmed) ==
    /\ activeTab = "invoice"
    /\ i \in 1..Len(savedDrafts)
    /\ data' = (IF confirmed THEN savedDrafts[i] ELSE data)
    /\ UNCHANGED <<otherProducts, encodings>>
    /\ lastStep' = (IF confirmed THEN "handleLoadDraft" ELSE "handleLoadDraft:cancelled")
    /\ UNCHANGED <<localStorage, apiKey, activeTab, products, isUploading, editingProduct,
                   uploads, inventory, savedDrafts, settings, svSettings>>

\* savedDrafts.filter(d => d.id !== id)
withoutDraft(ds, id) == LET keep(d) == Get(d, "id") # id IN SeqFilter(keep, ds)

\* Mutant of handleDeleteDraft: the invoiceDrafts record is not written.
handleDeleteDraftInMemory(id, confirmed) ==
    /\ activeTab = "invoice"
    /\ id \in IdsOf(savedDrafts)
    /\ savedDrafts' = (IF confirmed THEN withoutDraft(savedDrafts, id) ELSE savedDrafts)
    /\ UNCHANGED <<otherProducts, encodings>>
    /\ lastStep' = (IF confirmed THEN "handleDeleteDraft" ELSE "handleDeleteDraft:cancelled")
    /\ UNCHANGED <<localStorage, apiKey, activeTab, products, isUploading, editingProduct,
                   uploads, data, inventory, settings, svSettings>>

handleDeleteDraft(id, confirmed) ==
    /\ activeTab = "invoice"
    /\ id \in IdsOf(savedDrafts)
    /\ IF confirmed
       THEN /\ savedDrafts' = withoutDraft(savedDrafts, id)
            /\ localStorage' = [localStorage EXCEPT
                  !["invoiceDrafts"] = Some(StringifyDrafts(withoutDraft(savedDrafts, id)))]
       ELSE UNCHANGED <<savedDrafts, localStorage>>
    /\ UNCHANGED <<otherProducts, encodings>>
    /\ lastStep' = (IF confirmed THEN "handleDeleteDraft" ELSE "handleDeleteDraft:cancelled")
    /\ UNCHANGED <<apiKey, activeTab, products, isUploading, editingProduct,
                   uploads, data, inventory, settings, svSettings>>

\* window.print()
handlePrint ==
    /\ activeTab = "invoice"
    /\ lastStep' = "handlePrint"
    /\ UNCHANGED <<localStorage, apiKey, activeTab, products, isUploading, editingProduct,
                   uploads, data, inventory, savedDrafts, settings, svSettings,
                   otherProducts, encodings>>

\* `invoice-${data.reference || 'draft'}.pdf`
exportFilename(d) ==
    "invoice-" \o (IF d.reference = "" THEN "draft" ELSE d.reference) \o ".pdf"

\* Mutant of handleExportPDF: a missing reference is filled in on the invoice itself.
handleExportPDFNamingTheInvoice(loaded, saved) ==
    /\ activeTab = "invoice"
    /\ data' = (IF loaded /\ data.reference = "" THEN Put(data, "reference", "draft") ELSE data)
    /\ lastStep' = (IF ~loaded THEN "handleExportPDF:alert"
                    ELSE IF saved THEN "handleExportPDF:" \o exportFilename(data)
                    ELSE "handleExportPDF:rejected")
    /\ UNCHANGED <<localStorage, apiKey, activeTab, products, isUploading, editingProduct,
                   uploads, inventory, savedDrafts, settings, svSettings,
                   otherProducts, encodings>>

\* handleExportPDF: loaded is typeof html2pdf !== 'undefined' (the element
\* 'invoice-paper' is rendered whenever the editor is); saved is whether the promise
\* of html2pdf().set(opt).from(element).save() is fulfilled.  The file is written
\* by the browser, outside the program's state.
handleExportPDF(loaded, saved) ==
    /\ activeTab = "invoice"
    /\ lastStep' = (IF ~loaded THEN "handleExportPDF:alert"
                    ELSE IF saved THEN "handleExportPDF:" \o exportFilename(data)
                    ELSE "handleExportPDF:rejected")
    /\ UNCHANGED <<localStorage, apiKey, activeTab, products, isUploading, editingProduct,
                   uploads, data, inventory, savedDrafts, settings, svSettings,
                   otherProducts, encodings>>

(***************************************************************************)
(* The program.                                                            *)
(***************************************************************************)
Init ==
    /\ localStorage = [products |-> Null, invoiceDrafts |-> Null, appSettings |-> Null]
    /\ apiKey \in BOOLEAN
    /\ activeTab = "dashboard"
    /\ products = <<>>
    /\ isUploading = FALSE
    /\ editingProduct = Null
    /\ uploads = <<>>
    /\ data = InitialData
    /\ inventory = <<>>
    /\ savedDrafts = <<>>
    /\ settings = InitialSettings
    /\ svSettings = InitialSettings
    /\ otherProducts = Null
    /\ encodings = <<>>
    /\ lastStep = "load"

\* new Date().toLocaleString() at the moments a draft is saved
Times == {"05/11/2026, 10:00:00", "05/11/2026, 10:05:00"}

\* Files the user may offer to the restore input in the current state.
RestoreFiles == LegacyFiles \cup {NotJSONFile, backupFile(localStorage)}

\* The picked product of the product picker: the i-th of inventory, or none.
Picked(i) == IF i = 0 THEN Null ELSE Some(inventory[i])

ImageFile == [ext |-> "png", type |-> "image/png"]
WordFile == [ext |-> "docx", type |-> DocxType]

FullEntry == [code |-> "A1", name |-> "Pump", description |-> "steel", price |-> 100]

ArrayOf(entries) == [kind |-> "array", products |-> entries]

(***************************************************************************)
(* SpecCatalog: the user works in the inventory (uploads of an image or a  *)
(* Word file, every shape of response, deletes) and in the settings tab    *)
(* (backup and restore).                                                   *)
(***************************************************************************)
CatalogResponses ==
    {r \in Responses : \A j \in 1..Len(r.products) : r.products[j] \in {FullEntry, NullEntry}}

NextCatalog ==
    \/ \E t \in {"inventory", "settings"} : setActiveTab(t)
    \/ \E id \in IdPool, confirmed \in BOOLEAN : handleDelete(id, confirmed)
    \/ \E file \in {ImageFile, WordFile} : handleFileUploadStart(file)
    \/ \E i \in 1..MaxInFlight : handleFileUploadThrows(i)
    \/ \E i \in 1..MaxInFlight, response \in CatalogResponses :
          handleFileUploadResponse(i, response)
    \/ handleBackup
    \/ \E file \in {NotJSONFile, backupFile(localStorage)} : handleRestore(file)

SpecCatalog == Init /\ [][NextCatalog]_vars

(***************************************************************************)
(* SpecFailures: uploads of a Word file that fail at every point where     *)
(* the handler can fail, next to uploads that succeed, and restores from   *)
(* files that are and are not JSON.                                        *)
(***************************************************************************)
FailureResponses ==
    {[kind |-> k, products |-> <<>>] : k \in {"empty", "notJSON", "noArray"}}
    \cup {ArrayOf(<<FullEntry>>), ArrayOf(<<NullEntry>>), ArrayOf(<<FullEntry, NullEntry>>)}

NextFailures ==
    \/ \E t \in {"inventory", "settings"} : setActiveTab(t)
    \/ handleFileUploadStart(WordFile)
    \/ \E i \in 1..MaxInFlight : handleFileUploadThrows(i)
    \/ \E i \in 1..MaxInFlight, response \in FailureResponses :
          handleFileUploadResponse(i, response)
    \/ handleSave
    \/ \E file \in {NotJSONFile, backupFile(localStorage)} : handleRestore(file)

SpecFailures == Init /\ [][NextFailures]_vars

(***************************************************************************)
(* SpecSettings: the user edits, saves, backs up and restores the settings *)
(* and composes an invoice under them.                                     *)
(***************************************************************************)
NextSettings ==
    \/ \E t \in {"dashboard", "settings", "invoice"} : setActiveTab(t)
    \/ \E in \in SettingsInputs : setSettingsField(in[1], in[2])
    \/ toggleShowImageColumn
    \/ \E in \in TableConfigInputs : updateTableConfig(in[1], in[2])
    \/ handleSave
    \/ handleBackup
    \/ \E file \in RestoreFiles : handleRestore(file)
    \/ addItem(Null)
    \/ \E i \in 1..MaxItems, in \in ItemInputs : typeItemField(i, in[1], in[2])
    \/ \E i \in 1..MaxItems : decrementQty(i)
    \/ \E i \in 1..MaxItems : incrementQty(i)
    \/ \E id \in IdPool : removeItem(id)

SpecSettings == Init /\ [][NextSettings]_vars

(***************************************************************************)
(* SpecDrafts: the user edits the invoice and saves, loads and deletes     *)
(* drafts, leaving and reopening the invoice tab in between.               *)
(***************************************************************************)
NextDrafts ==
    \/ \E t \in {"dashboard", "invoice"} : setActiveTab(t)
    \/ \E in \in FieldInputs : updateField(in[1], in[2])
    \/ \E id \in IdPool : removeItem(id)
    \/ \E now \in Times : handleSaveDraft(now)
    \/ \E i \in 1..MaxDrafts : handleLoadDraft(i, TRUE)
    \/ \E id \in IdPool, confirmed \in BOOLEAN : handleDeleteDraft(id, confirmed)

SpecDrafts == Init /\ [][NextDrafts]_vars

(***************************************************************************)
(* SpecInvoice: the user restores a backup that holds a catalog, composes  *)
(* invoices from the catalog, saves them as drafts, and edits and deletes  *)
(* products.                                                               *)
(***************************************************************************)
\* The backup of a store whose catalog is one product extracted from an image
CatalogBackup ==
    JSONFile([products |-> <<DropUndefined(newItem(FullEntry, "1", ImageFile))>>,
              drafts |-> <<>>,
              settings |-> EmptyObject])

NextInvoice ==
    \/ \E t \in Tabs : setActiveTab(t)
    \/ handleRestore(CatalogBackup)
    \/ \E id \in IdPool, confirmed \in BOOLEAN : handleDelete(id, confirmed)
    \/ \E i \in 0..Len(inventory) : addItem(Picked(i))
    \/ \E now \in {"05/11/2026, 10:00:00"} : handleSaveDraft(now)
    \/ \E i \in 1..MaxProducts : openEdit(i)
    \/ editField("price", 50)
    \/ handleEditSave
    \/ cancelEdit

SpecInvoice == Init /\ [][NextInvoice]_vars

(***************************************************************************)
(* SpecExtraction: the user uploads an image, a PDF and a Word file and    *)
(* the service answers with entries that hold all, some or none of the     *)
(* schema's fields.                                                        *)
(***************************************************************************)
EntryFields == {"code", "name", "description", "price"}

Omit(obj, k) == [x \in DOMAIN obj \ {k} |-> obj[x]]

\* an entry whose fields are there and falsy
FalsyEntry == [code |-> "", name |-> "", description |-> "", price |-> 0]

ExtractionEntries ==
    {FullEntry, EmptyObject, FalsyEntry} \cup {Omit(FullEntry, k) : k \in EntryFields}

ExtractionResponses ==
    {ArrayOf(<<e>>) : e \in ExtractionEntries}
    \cup {ArrayOf(<<>>), ArrayOf(<<Omit(FullEntry, "code"), FullEntry>>),
          ArrayOf(<<FullEntry, NullEntry>>), [kind |-> "noArray", products |-> <<>>]}

NextExtraction ==
    \/ setActiveTab("inventory")
    \/ \E file \in Files : handleFileUploadStart(file)
    \/ \E i \in 1..MaxInFlight : handleFileUploadThrows(i)
    \/ \E i \in 1..MaxInFlight, response \in ExtractionResponses :
          handleFileUploadResponse(i, response)
    \/ \E id \in IdPool : handleDelete(id, TRUE)

SpecExtraction == Init /\ [][NextExtraction]_vars

(***************************************************************************)
(* SpecTotals: the user sets and saves a tax rate of 10 and fills invoice  *)
(* rows with a price of 100 and quantities.                                *)
(***************************************************************************)
NextTotals ==
    \/ \E t \in {"settings", "invoice"} : setActiveTab(t)
    \/ setSettingsField("taxRate", 10)
    \/ handleSave
    \/ addItem(Null)
    \/ \E i \in 1..MaxItems : typeItemField(i, "price", 100)
    \/ \E i \in 1..MaxItems : incrementQty(i)
    \/ \E i \in 1..MaxItems : decrementQty(i)
    \/ \E id \in IdPool : removeItem(id)

SpecTotals == Init /\ [][NextTotals]_vars

(***************************************************************************)
(* SpecRestore: the user saves settings and a draft and restores backups:  *)
(* the one the program writes, older ones that lack fields, one that holds *)
(* a null field, and a file that is not JSON.                              *)
(***************************************************************************)
FilesToRestore == RestoreFiles \cup {NullSettingsFile, CatalogBackup}

NextRestore ==
    \/ \E t \in {"settings", "invoice"} : setActiveTab(t)
    \/ setSettingsField("themeColor", "#ef4444")
    \/ handleSave
    \/ handleSaveDraft("05/11/2026, 10:00:00")
    \/ \E file \in FilesToRestore : handleRestore(file)

SpecRestore == Init /\ [][NextRestore]_vars

(***************************************************************************)
(* SpecCredential: with and without an API key the user restores a catalog *)
(* from a backup, uploads files (the requests fail or find no product) and *)
(* deletes products.                                                       *)
(***************************************************************************)
NextCredential ==
    \/ \E t \in {"inventory", "settings"} : setActiveTab(t)
    \/ handleRestore(CatalogBackup)
    \/ \E file \in {ImageFile, WordFile} : handleFileUploadStart(file)
    \/ \E i \in 1..MaxInFlight : handleFileUploadThrows(i)
    \/ \E i \in 1..MaxInFlight : handleFileUploadResponse(i, ArrayOf(<<>>))
    \/ \E id \in IdPool : handleDelete(id, TRUE)

SpecCredential == Init /\ [][NextCredential]_vars

(***************************************************************************)
(* SpecDraftList: the user saves drafts, opens the drafts list, and loads  *)
(* and deletes drafts, or answers the confirm dialog with cancel.          *)
(***************************************************************************)
NextDraftList ==
    \/ \E t \in {"dashboard", "invoice"} : setActiveTab(t)
    \/ \E in \in FieldInputs : updateField(in[1], in[2])
    \/ handleSaveDraft("05/11/2026, 10:00:00")
    \/ \E i \in 1..MaxDrafts, confirmed \in BOOLEAN : handleLoadDraft(i, confirmed)
    \/ \E id \in IdPool, confirmed \in BOOLEAN : handleDeleteDraft(id, confirmed)

SpecDraftList == Init /\ [][NextDraftList]_vars

(***************************************************************************)
(* SpecTable: the user drags the column sliders to the ends of their       *)
(* ranges, hides and shows the image column, saves, and opens the invoice, *)
(* which lays its table out from the saved settings.                       *)
(***************************************************************************)
\* min and max of the <input type="range"> of each column width
SliderRange ==
    [imageWidth |-> 5..30, itemWidth |-> 5..30, priceWidth |-> 5..30,
     qtyWidth |-> 5..20, totalWidth |-> 5..30]

TableSliderInputs ==
    {<<"imageWidth", 5>>, <<"imageWidth", 30>>, <<"itemWidth", 30>>,
     <<"priceWidth", 30>>, <<"qtyWidth", 5>>, <<"qtyWidth", 20>>, <<"totalWidth", 30>>}

NextTable ==
    \/ \E t \in {"settings", "invoice"} : setActiveTab(t)
    \/ \E in \in TableSliderInputs : updateTableConfig(in[1], in[2])
    \/ toggleShowImageColumn
    \/ handleSave

SpecTable == Init /\ [][NextTable]_vars

(***************************************************************************)
(* SpecTwoTabs: two browser tabs on one store.  Each has its own Inventory  *)
(* and both write the products record; in the first tab the user also      *)
(* edits products in the modal.                                            *)
(***************************************************************************)
\* The backup of a store whose catalog holds MaxProducts extracted products
SharedCatalogBackup ==
    JSONFile([products |-> [i \in 1..MaxProducts |->
                               DropUndefined(newItem(FullEntry, ToString(i), ImageFile))],
              drafts |-> <<>>,
              settings |-> EmptyObject])

NextTwoTabs ==
    \/ \E t \in {"inventory", "settings"} : setActiveTab(t)
    \/ handleRestore(SharedCatalogBackup)
    \/ \E id \in IdPool : handleDelete(id, TRUE)
    \/ otherTabMounts
    \/ otherTabUnmounts
    \/ \E id \in IdPool : otherTabHandleDelete(id)
    \/ \E i \in 1..MaxProducts : openEdit(i)
    \/ editField("price", 50)
    \/ handleEditSave
    \/ cancelEdit

SpecTwoTabs == Init /\ [][NextTwoTabs]_vars

(***************************************************************************)
(* SpecExport: the user retypes the reference, saves drafts, prints and    *)
(* exports, and leaves the invoice tab and comes back.                     *)
(***************************************************************************)
NextExport ==
    \/ \E t \in {"dashboard", "invoice"} : setActiveTab(t)
    \/ \E reference \in {"INV-7", ""} : updateField("reference", reference)
    \/ handleSaveDraft("05/11/2026, 10:00:00")
    \/ handlePrint
    \/ \E loaded \in BOOLEAN, saved \in BOOLEAN : handleExportPDF(loaded, saved)

SpecExport == Init /\ [][NextExport]_vars

(***************************************************************************)
(* SpecQuantity: the user adds rows and sets their quantities with the     *)
(* minus and plus controls and by typing negative numbers, and removes     *)
(* rows.                                                                   *)
(***************************************************************************)
NextQuantity ==
    \/ \E t \in {"dashboard", "invoice"} : setActiveTab(t)
    \/ addItem(Null)
    \/ \E i \in 1..MaxItems, qty \in {-2, -1} : typeItemField(i, "qty", qty)
    \/ \E id \in IdPool : removeItem(id)
    \/ \E i \in 1..MaxItems : incrementQty(i)
    \/ \E i \in 1..MaxItems : decrementQty(i)

SpecQuantity == Init /\ [][NextQuantity]_vars

(***************************************************************************)
(* SpecTax: the user types tax rates into the settings form, among them    *)
(* numbers outside the input's min and max, saves, and opens the invoice.  *)
(***************************************************************************)
\* Numbers typed into the tax input; min="0" and max="100" do not keep the change
\* event of a typed number from firing.
TaxInputs == {0, 10, 100, 150, -5}

NextTax ==
    \/ \E t \in {"dashboard", "settings", "invoice"} : setActiveTab(t)
    \/ \E rate \in TaxInputs : setSettingsField("taxRate", rate)
    \/ handleSave

SpecTax == Init /\ [][NextTax]_vars

(***************************************************************************)
(* SpecForm: the user edits every kind of settings field (tax rate, colour, *)
(* image-column flag, a column width, the logo), saves, and opens the       *)
(* invoice.                                                                 *)
(***************************************************************************)
NextForm ==
    \/ \E t \in {"settings", "invoice"} : setActiveTab(t)
    \/ \E in \in {<<"taxRate", 10>>, <<"themeColor", "#ef4444">>} :
          setSettingsField(in[1], in[2])
    \/ toggleShowImageColumn
    \/ updateTableConfig("imageWidth", 30)
    \/ handleLogoUploadStart(ImageFile)
    \/ \E i \in 1..MaxEncodings, resolved \in BOOLEAN : handleLogoUploadDone(i, resolved)
    \/ handleSave

SpecForm == Init /\ [][NextForm]_vars

(***************************************************************************)
(* SpecLoaded: the user restores a backup that holds drafts, loads a draft *)
(* and edits the loaded invoice (header, new rows, prices, removed rows)   *)
(* without saving it.                                                      *)
(***************************************************************************)
\* A backup that holds MaxDrafts drafts of two blank rows
DraftsBackup ==
    JSONFile([products |-> <<>>,
              drafts |-> [i \in 1..MaxDrafts |->
                            StringifyDraft(
                                [InitialData EXCEPT
                                   !.items = <<blankItem("1"), blankItem("2")>>]
                                @@ [id |-> ToString(i), savedAt |-> "05/11/2026, 10:00:00"])],
              settings |-> EmptyObject])

NextLoaded ==
    \/ \E t \in {"settings", "invoice"} : setActiveTab(t)
    \/ handleRestore(DraftsBackup)
    \/ \E in \in FieldInputs : updateField(in[1], in[2])
    \/ addItem(Null)
    \/ \E i \in 1..MaxItems, in \in ItemInputs : typeItemField(i, in[1], in[2])
    \/ \E id \in IdPool : removeItem(id)
    \/ \E i \in 1..MaxDrafts : handleLoadDraft(i, TRUE)

SpecLoaded == Init /\ [][NextLoaded]_vars

(***************************************************************************)
(* SpecEditImage: the user restores a catalog, opens a product in the edit *)
(* modal, chooses a new image, and types, cancels or saves while the image *)
(* is being encoded.                                                       *)
(***************************************************************************)
NextEditImage ==
    \/ \E t \in {"inventory", "settings"} : setActiveTab(t)
    \/ handleRestore(CatalogBackup)
    \/ \E i \in 1..MaxProducts : openEdit(i)
    \/ \E in \in EditInputs : editField(in[1], in[2])
    \/ handleEditImageUploadStart([ext |-> "jpg", type |-> "image/jpeg"])
    \/ \E i \in 1..MaxEncodings, resolved \in BOOLEAN : handleEditImageUploadDone(i, resolved)
    \/ handleEditSave
    \/ cancelEdit

SpecEditImage == Init /\ [][NextEditImage]_vars

(***************************************************************************)
(* Properties.                                                             *)
(***************************************************************************)
StoredIn(store, key) == IF store[key] = Null THEN <<>> ELSE JSONParse(store[key][1])

IsPrefix(a, b) == Len(a) <= Len(b) /\ \A i \in 1..Len(a) : b[i] = a[i]

SettingsKeys == {"companyLogo", "taxRate", "themeColor", "showImageColumn", "tableConfig"}

RECURSIVE SumOfLines(_, _)
SumOfLines(items, n) ==
    IF n = 0 THEN 0 ELSE items[n].price * items[n].qty + SumOfLines(items, n - 1)

\* C1: whenever the invoice editor is shown, calculateTotal() is a number and equals
\* (sum of price * qty over the current items) * (1 + taxRate / 100), taxRate being
\* the tax rate of the settings the editor loaded (both sides in hundredths).
C1_TotalIsSumTimesTax ==
    activeTab = "invoice" =>
        /\ Has(settings, "taxRate")
        /\ calculateTotal(data.items, settings)
             = Number(SumOfLines(data.items, Len(data.items)) * (100 + settings.taxRate))

\* C4: in every reachable state of the store, restoring the file that backup produces
\* from the store leaves the three records as they are.
C4_BackupRestoreRoundTrip ==
    restored(localStorage, backupFile(localStorage)) = localStorage

\* C10: right after SettingsView or InvoiceEditor loaded a stored appSettings record,
\* every field of the in-memory settings is defined and every field the stored record
\* holds has its stored value.
C10_LoadedSettingsComplete ==
    (/\ lastStep = "setActiveTab"
     /\ activeTab \in {"settings", "invoice"}
     /\ localStorage["appSettings"] # Null) =>
        LET parsed == JSONParse(localStorage["appSettings"][1])
            loaded == IF activeTab = "settings" THEN svSettings ELSE settings
        IN /\ SettingsKeys \subseteq DOMAIN loaded
           /\ DOMAIN DEFAULT_TABLE_CONFIG \subseteq DOMAIN loaded.tableConfig
           /\ \A k \in DOMAIN parsed \ {"tableConfig"} : loaded[k] = parsed[k]
           /\ Has(parsed, "tableConfig") =>
                 \A k \in DOMAIN parsed.tableConfig :
                     loaded.tableConfig[k] = parsed.tableConfig[k]

\* C5: when an extraction completes with products, the stored catalog and the list
\* of the inventory view are what they were just before, followed by products that
\* are new: nothing that was deleted or edited meanwhile comes back.
C5_AppendsToCurrentCatalog ==
    [][lastStep' = "handleFileUpload:saved" =>
          LET before == StoredIn(localStorage, "products")
              after == StoredIn(localStorage', "products")
          IN /\ IsPrefix(before, after)
             /\ \A j \in (Len(before) + 1)..Len(after) : after[j].id \notin UsedProductIds
             /\ IsPrefix(products, products')
             /\ \A j \in (Len(products) + 1)..Len(products') :
                   products'[j].id \notin UsedProductIds]_vars

\* C6: at most one extraction request is in flight.
C6_OneRequestInFlight == Len(uploads) <= 1

\* C7: when an extraction attempt ends, the stored catalog is the catalog of just
\* before, or that catalog followed by one new product for every entry of the
\* service's products array.
C7_AllOrNothing ==
    [][/\ lastStep' = "handleFileUpload:catch" =>
             StoredIn(localStorage', "products") = StoredIn(localStorage, "products")
       /\ \A i \in 1..MaxInFlight, response \in Responses :
             handleFileUploadResponse(i, response) =>
                LET before == StoredIn(localStorage, "products")
                    after == StoredIn(localStorage', "products")
                IN \/ after = before
                   \/ /\ IsPrefix(before, after)
                      /\ Len(after) = Len(before) + Len(response.products)]_vars

\* C8: no step of a failing operation writes to the store: the upload up to its
\* await and its failing end (an awaited call rejects, the Word file yields no text,
\* the response is not JSON) and the restore of a file that is not JSON leave the
\* three stored records as they are.
C8_FailuresKeepTheStore ==
    [][lastStep' \in {"handleFileUpload:noKey", "handleFileUpload:await",
                      "handleFileUpload:catch", "handleRestore:catch"} =>
          localStorage' = localStorage]_vars

C8_Witness ==
    /\ lastStep = "handleFileUpload:catch"
    /\ StoredIn(localStorage, "products") # <<>>
    /\ localStorage["appSettings"] # Null
    /\ uploads # <<>>

\* C9: deleting a product changes the products record only: the invoiceDrafts and
\* appSettings records stay as they are, with every saved item seeded from the product.
C9_DeleteKeepsDrafts ==
    [][lastStep' = "handleDelete" =>
          /\ localStorage'["invoiceDrafts"] = localStorage["invoiceDrafts"]
          /\ localStorage'["appSettings"] = localStorage["appSettings"]
          /\ localStorage'["products"] # localStorage["products"]]_vars

\* A saved draft holds an item seeded from a product that the catalog no longer holds.
C9_Witness ==
    /\ lastStep = "handleDelete"
    /\ \E i \in 1..Len(StoredIn(localStorage, "invoiceDrafts")) :
          LET items == StoredIn(localStorage, "invoiceDrafts")[i].items
          IN \E j \in 1..Len(items) :
                /\ Has(items[j], "productId")
                /\ items[j].productId \notin IdsOf(StoredIn(localStorage, "products"))
                /\ items[j].price = 100 /\ Has(items[j], "image")

DistinctIds(ds) == \A i, j \in 1..Len(ds) : i # j => ds[i].id # ds[j].id

\* C2: after every step the drafts collection and the invoiceDrafts record hold at
\* most one entry per draft id, and saving a document whose id is in the collection
\* replaces that entry and leaves the length of the collection unchanged.
C2_OneEntryPerDraftId ==
    [][/\ DistinctIds(savedDrafts')
       /\ DistinctIds(StoredIn(localStorage', "invoiceDrafts"))
       /\ (lastStep' = "handleSaveDraft" /\ Get(data, "id") \in IdsOf(savedDrafts)) =>
             /\ Len(savedDrafts') = Len(savedDrafts)
             /\ \A i \in 1..Len(savedDrafts) :
                   savedDrafts'[i] = IF savedDrafts[i].id = data.id THEN data'
                                     ELSE savedDrafts[i]]_vars

\* A draft that is not the newest one has just been saved again.
C2_Witness ==
    /\ lastStep = "handleSaveDraft"
    /\ Len(savedDrafts) = 2
    /\ savedDrafts[2].id = data.id
    /\ savedDrafts[2].reference = "INV-7"

\* C3: saving a document that has no id adds exactly one entry, in front, under an id
\* the collection did not hold, and gives the in-memory document that id; a save
\* that follows a save adds no entry.
C3_FirstSaveAddsOneEntry ==
    [][/\ (lastStep' = "handleSaveDraft" /\ ~Has(data, "id")) =>
             /\ Len(savedDrafts') = Len(savedDrafts) + 1
             /\ Tail(savedDrafts') = savedDrafts
             /\ Has(data', "id")
             /\ data'.id \notin IdsOf(savedDrafts)
             /\ savedDrafts'[1].id = data'.id
             /\ StoredIn(localStorage', "invoiceDrafts") = StringifyDrafts(savedDrafts')
       /\ (lastStep = "handleSaveDraft" /\ lastStep' = "handleSaveDraft") =>
             Len(savedDrafts') = Len(savedDrafts)]_vars

\* A first save has been followed by a first save of another document.
C3_Witness ==
    /\ lastStep = "handleSaveDraft"
    /\ Len(savedDrafts) = 2
    /\ savedDrafts[1].id = data.id
    /\ savedDrafts[1].savedAt # savedDrafts[2].savedAt

InSliderRanges(tc) == \A k \in DOMAIN SliderRange : tc[k] \in SliderRange[k]

SumOfFiveWidths(tc) ==
    tc.imageWidth + tc.itemWidth + tc.priceWidth + tc.qtyWidth + tc.totalWidth

\* C11 as stated: for column widths within their slider ranges the description
\* column is max(10, 100 - W) wide, W the sum of the image, item, price, qty and
\* total widths.
C11_DescriptionWidthOfFive ==
    (activeTab = "invoice" /\ InSliderRanges(settings.tableConfig)) =>
        LET W == SumOfFiveWidths(settings.tableConfig)
        IN descriptionWidth(settings) = (IF 100 - W >= 10 THEN 100 - W ELSE 10)

\* C11 as amended: for column widths within their slider ranges the description
\* column and the shown columns fill the row (their widths sum to 100) as long as
\* the shown columns take at most 90, and the description column is 10 wide
\* otherwise; the image column counts among the shown columns only while the
\* image column is switched on.
C11_DescriptionWidthOfShown ==
    (activeTab = "invoice" /\ InSliderRanges(settings.tableConfig)) =>
        LET tc == settings.tableConfig
            W == SumOfFiveWidths(tc) - (IF settings.showImageColumn THEN 0 ELSE tc.imageWidth)
        IN IF W <= 90 THEN descriptionWidth(settings) + W = 100
           ELSE descriptionWidth(settings) = 10

\* The invoice is laid out with the image column hidden and with columns that
\* take more than 90.
C11_Witness ==
    /\ activeTab = "invoice"
    /\ InSliderRanges(settings.tableConfig)
    /\ ~settings.showImageColumn
    /\ usedWidth(settings) > 90
    /\ settings.tableConfig.imageWidth = 5

\* The product made from entry e, as stored, carries the defaults for what e lacks.
DefaultsFilled(e, p) ==
    /\ p.code = (IF Has(e, "code") /\ e.code # "" THEN e.code ELSE "N/A")
    /\ p.name = (IF Has(e, "name") /\ e.name # "" THEN e.name ELSE "New product")
    /\ p.description = (IF Has(e, "description") THEN e.description ELSE "")
    /\ p.price = (IF Has(e, "price") THEN e.price ELSE 0)

\* C12: every product an extraction adds to the stored catalog has code 'N/A', the
\* placeholder name, an empty description and price 0 where its entry lacks the
\* field (and the entry's value where it has one), and carries the uploaded file
\* as its image exactly when the upload was an image, never for a PDF or Word file.
C12_DefaultsAndImage ==
    [][\A i \in 1..MaxInFlight, response \in ExtractionResponses :
          (handleFileUploadResponse(i, response) /\ lastStep' = "handleFileUpload:saved") =>
              LET n == Len(uploads[i].products)
                  file == uploads[i].file
                  after == StoredIn(localStorage', "products")
              IN /\ Len(after) = n + Len(response.products)
                 /\ \A j \in 1..Len(response.products) :
                       /\ DefaultsFilled(response.products[j], after[n + j])
                       /\ Has(after[n + j], "image") <=> file.ext = "png"
                       /\ Has(after[n + j], "image") =>
                             after[n + j].image = "data:image/png;base64"]_vars

\* The catalog holds a product made from an empty entry of a PDF upload next to a
\* product made from a full entry of an image upload.
C12_Witness ==
    /\ lastStep = "handleFileUpload:saved"
    /\ \E i, j \in 1..Len(StoredIn(localStorage, "products")) :
          LET ps == StoredIn(localStorage, "products")
          IN /\ ps[i].code = "N/A" /\ ps[i].price = 0 /\ ~Has(ps[i], "image")
             /\ ps[j].code = "A1" /\ Has(ps[j], "image")

\* C13: with tax rate 10 and exactly one item of price 100 and quantity 2 the
\* subtotal is 200, the tax amount 20 and the total 220.
C13_TotalsOfTheScenario ==
    (/\ activeTab = "invoice"
     /\ Has(settings, "taxRate") /\ settings.taxRate = 10
     /\ Len(data.items) = 1
     /\ data.items[1].price = 100 /\ data.items[1].qty = 2) =>
        /\ calculateSubtotal(data.items) = 200
        /\ taxAmount(data.items, settings) = Number(20 * 100)
        /\ calculateTotal(data.items, settings) = Number(220 * 100)

C13_Witness ==
    /\ activeTab = "invoice"
    /\ localStorage["appSettings"] # Null
    /\ settings.taxRate = 10
    /\ Len(data.items) = 1
    /\ data.items[1].price = 100 /\ data.items[1].qty = 2
    /\ lastStep = "updateItem"

JSONNull == [null |-> TRUE]

FieldOfKey == [products |-> "products", invoiceDrafts |-> "drafts", appSettings |-> "settings"]

\* C14 as stated: a restore sets each of the keys products, invoiceDrafts and
\* appSettings to exactly the value of the file's products, drafts and settings
\* field, and a key whose field is absent from the file keeps its value.
C14_RestoreSetsEveryField ==
    [][\A file \in FilesToRestore :
          (handleRestore(file) /\ file.json) =>
              \A key \in DOMAIN FieldOfKey :
                 LET field == FieldOfKey[key]
                 IN IF Has(file.data, field)
                    THEN localStorage'[key] = Some(file.data[field])
                    ELSE IF field \in NullFields(file)
                    THEN localStorage'[key] = Some(JSONNull)
                    ELSE localStorage'[key] = localStorage[key]]_vars

\* C14 as amended: a restore sets each of the keys to exactly the value of the
\* file's field when the field is there and truthy (an array or an object), and
\* a key whose field is absent or falsy (null) keeps its value.
C14_RestoreSetsTruthyFields ==
    [][\A file \in FilesToRestore :
          (handleRestore(file) /\ file.json) =>
              \A key \in DOMAIN FieldOfKey :
                 LET field == FieldOfKey[key]
                 IN IF Has(file.data, field)
                    THEN localStorage'[key] = Some(file.data[field])
                    ELSE localStorage'[key] = localStorage[key]]_vars

\* A file without products and drafts has been restored over a store that holds
\* a catalog and a draft.
C14_Witness ==
    /\ lastStep = "handleRestore"
    /\ StoredIn(localStorage, "products") # <<>>
    /\ StoredIn(localStorage, "invoiceDrafts") # <<>>
    /\ localStorage["appSettings"] = Some([companyLogo |-> "", taxRate |-> 10])

\* C15: without the API credential no extraction request is ever in flight and
\* the uploading flag is never set, and the upload of a file leaves the product
\* list of the inventory and the three stored records as they are.
C15_NoKeyNoRequest ==
    [][/\ ~apiKey => (uploads' = <<>> /\ ~isUploading')
       /\ (~apiKey /\ \E file \in {ImageFile, WordFile} : handleFileUploadStart(file)) =>
             /\ lastStep' = "handleFileUpload:noKey"
             /\ products' = products
             /\ localStorage' = localStorage]_vars

\* A file has been offered without a key while the catalog holds a product.
C15_Witness ==
    /\ ~apiKey
    /\ lastStep = "handleFileUpload:noKey"
    /\ products # <<>>
    /\ StoredIn(localStorage, "products") = StringifyProducts(products)

\* C16: after every completed catalog mutation (a product delete, a product edit
\* save, an extraction that saved) the stored products record equals the product
\* list of the inventory view that is mounted.
C16_StoreEqualsMountedList ==
    [][(/\ lastStep' \in {"handleDelete", "handleEditSave", "handleFileUpload:saved"}
        /\ activeTab' = "inventory") =>
          StoredIn(localStorage', "products") = StringifyProducts(products')]_vars

\* C17: a confirmed loadDraft makes the in-memory invoice equal to the chosen draft,
\* id included, and leaves the drafts collection and the store as they are; an
\* unconfirmed one changes nothing.  A confirmed deleteDraft removes exactly the
\* entries with the given id from the drafts collection and from the invoiceDrafts
\* record and leaves the in-memory invoice as it is; an unconfirmed one changes nothing.
C17_LoadAndDeleteDraft ==
    [][/\ \A i \in 1..MaxDrafts, confirmed \in BOOLEAN :
             handleLoadDraft(i, confirmed) =>
                /\ savedDrafts' = savedDrafts
                /\ localStorage' = localStorage
                /\ IF confirmed
                   THEN /\ data' = savedDrafts[i]
                        /\ Has(data', "id") /\ data'.id = savedDrafts[i].id
                   ELSE data' = data
       /\ \A id \in IdPool, confirmed \in BOOLEAN :
             handleDeleteDraft(id, confirmed) =>
                /\ data' = data
                /\ IF confirmed
                   THEN /\ savedDrafts' = SelectSeq(savedDrafts, LAMBDA d : d.id # id)
                        /\ StoredIn(localStorage', "invoiceDrafts")
                             = SelectSeq(StoredIn(localStorage, "invoiceDrafts"),
                                         LAMBDA d : d.id # id)
                        /\ localStorage'["products"] = localStorage["products"]
                        /\ localStorage'["appSettings"] = localStorage["appSettings"]
                   ELSE savedDrafts' = savedDrafts /\ localStorage' = localStorage]_vars

\* The draft that is open in the editor has been deleted while another one stays.
C17_Witness ==
    /\ lastStep = "handleDeleteDraft"
    /\ Len(savedDrafts) = 1
    /\ Has(data, "id")
    /\ data.id \notin IdsOf(savedDrafts)
    /\ data.id \notin IdsOf(StoredIn(localStorage, "invoiceDrafts"))

\* C18: addItem appends exactly one item at the end of the item sequence and
\* leaves the earlier items and the other fields of the invoice as they are; an
\* item seeded from a product has the product's id as productId, the product's
\* code, price and image, and quantity 1; an edit or a deletion of a product in
\* the catalog changes neither the in-memory invoice nor any saved item.
C18_AddItemAppendsACopy ==
    [][/\ \A i \in 0..MaxProducts :
             (i <= Len(inventory) /\ addItem(Picked(i))) =>
                LET n == Len(data.items)
                    x == data'.items[n + 1]
                IN /\ Len(data'.items) = n + 1
                   /\ SubSeq(data'.items, 1, n) = data.items
                   /\ [data' EXCEPT !.items = data.items] = data
                   /\ x.id \notin IdsOf(data.items)
                   /\ x.qty = 1
                   /\ IF i = 0
                      THEN Get(x, "productId") = Undefined
                      ELSE /\ x.productId = inventory[i].id
                           /\ x.itemCode = inventory[i].code
                           /\ x.price = inventory[i].price
                           /\ Get(x, "image") = Get(inventory[i], "image")
       /\ lastStep' \in {"handleDelete", "handleEditSave"} =>
             /\ data' = data
             /\ savedDrafts' = savedDrafts
             /\ localStorage'["invoiceDrafts"] = localStorage["invoiceDrafts"]]_vars

\* The price of a product has been edited after a draft with an item seeded from
\* it was saved: the saved item keeps the price it was seeded with.
C18_Witness ==
    /\ lastStep = "handleEditSave"
    /\ \E p \in Range(StoredIn(localStorage, "products")) :
          \E d \in Range(StoredIn(localStorage, "invoiceDrafts")) :
             \E x \in Range(d.items) :
                /\ Has(x, "productId") /\ x.productId = p.id
                /\ x.itemCode = p.code
                /\ x.price = 100 /\ p.price = 50
                /\ Has(x, "image")

\* C19: updateItem(id, field, value) changes only the named field of the items
\* with that id and leaves every other item, every other field and the order as
\* they are; removeItem(id) removes exactly the items with that id and keeps the
\* others in their order; neither changes a stored record.
C19_UpdateAndRemoveItem ==
    [][/\ \A id \in IdPool, field \in {"price", "qty"}, value \in (0..MaxQty) \cup {100} :
             updateItem(id, field, value) =>
                /\ Len(data'.items) = Len(data.items)
                /\ \A j \in 1..Len(data.items) :
                      data'.items[j] = IF data.items[j].id = id
                                       THEN [data.items[j] EXCEPT ![field] = value]
                                       ELSE data.items[j]
                /\ [data' EXCEPT !.items = data.items] = data
                /\ localStorage' = localStorage /\ savedDrafts' = savedDrafts
       /\ \A id \in IdPool :
             removeItem(id) =>
                /\ data'.items = SelectSeq(data.items, LAMBDA x : x.id # id)
                /\ id \notin IdsOf(data'.items)
                /\ [data' EXCEPT !.items = data.items] = data
                /\ localStorage' = localStorage /\ savedDrafts' = savedDrafts]_vars

\* The price of the second of two rows has been typed with settings in the store.
C19_Witness ==
    /\ lastStep = "updateItem"
    /\ Len(data.items) = 2
    /\ data.items[1].price = 0 /\ data.items[2].price = 100
    /\ data.items[1].qty = 2 /\ data.items[2].qty = 1
    /\ localStorage["appSettings"] # Null

\* C20: while an extraction attempt of the inventory view is under way the
\* uploading flag of the view is true (the flag is set when the attempt starts and
\* reset only when it ends).
C20_FlagSetWhileInFlight ==
    (activeTab = "inventory" /\ uploads # <<>>) => isUploading

C22_PrintAndExportChangeNothing ==
    [][/\ handlePrint => (data' = data /\ localStorage' = localStorage
                          /\ savedDrafts' = savedDrafts)
       /\ \A loaded \in BOOLEAN, saved \in BOOLEAN :
             handleExportPDF(loaded, saved) =>
                (data' = data /\ localStorage' = localStorage
                 /\ savedDrafts' = savedDrafts)]_vars

\* An invoice without a reference, next to a stored draft, has been exported under
\* the default file name.
C22_Witness ==
    /\ lastStep = "handleExportPDF:invoice-draft.pdf"
    /\ data.reference = ""
    /\ localStorage["invoiceDrafts"] # Null
    /\ Len(data.items) > 0

\* C23: saving an edited product replaces exactly the catalog entries whose id is
\* the edited product's id, keeps the length and the order of the catalog and every
\* other product, and closes the modal; cancelling the edit leaves the catalog and
\* the products record as they are.
C23_EditSaveReplacesInPlace ==
    [][/\ handleEditSave =>
            /\ Len(products') = Len(products)
            /\ \A i \in 1..Len(products) :
                  products'[i] = (IF products[i].id = editingProduct[1].id
                                  THEN editingProduct[1] ELSE products[i])
            /\ editingProduct' = Null
       /\ cancelEdit =>
            /\ products' = products
            /\ localStorage'["products"] = localStorage["products"]]_vars

\* The first of several products has been edited and saved: it is still the first
\* and the one behind it is as it was extracted.
C23_Witness ==
    /\ lastStep = "handleEditSave"
    /\ Len(products) >= 2
    /\ products[1].price = 50
    /\ products[2] = DropUndefined(newItem(FullEntry, "2", ImageFile))

\* C24: saving a document whose id is in the drafts collection keeps that entry at
\* its position, with the saved content, and leaves every other draft as it is;
\* saving a document without an id puts the new entry in front of the collection
\* as it was; after each save the invoiceDrafts record is the serialisation of the
\* in-memory drafts collection.
C24_SaveKeepsPositions ==
    [][lastStep' = "handleSaveDraft" =>
         /\ (Has(data, "id") /\ data.id \in IdsOf(savedDrafts)) =>
               /\ Len(savedDrafts') = Len(savedDrafts)
               /\ \A i \in 1..Len(savedDrafts) :
                     /\ savedDrafts'[i].id = savedDrafts[i].id
                     /\ savedDrafts[i].id # data.id => savedDrafts'[i] = savedDrafts[i]
                     /\ savedDrafts[i].id = data.id => savedDrafts'[i] = data'
         /\ ~Has(data, "id") => savedDrafts' = <<data'>> \o savedDrafts
         /\ localStorage'["invoiceDrafts"] = Some(StringifyDrafts(savedDrafts'))]_vars

\* The older of two drafts has been saved again at a later time: it is still behind
\* the newer one, which kept its time stamp.
C24_Witness ==
    /\ lastStep = "handleSaveDraft"
    /\ Len(savedDrafts) = 2
    /\ savedDrafts[2].id = data.id
    /\ savedDrafts[2].savedAt = "05/11/2026, 10:05:00"
    /\ savedDrafts[1].savedAt = "05/11/2026, 10:00:00"

\* C25: the minus control never produces a negative quantity: from a quantity of 1
\* or more it gives one less, from 0 and from anything below it gives 0, and it
\* changes no other row.
C25_DecrementNeverNegative ==
    [][\A i \in 1..MaxItems :
          decrementQty(i) =>
             LET qty == data.items[i].qty
             IN /\ data'.items[i].qty >= 0
                /\ data'.items[i].qty = (IF qty >= 1 THEN qty - 1 ELSE 0)
                /\ qty = 0 => data'.items[i].qty = 0
                /\ \A j \in 1..Len(data.items) : j # i => data'.items[j] = data.items[j]
                /\ Len(data'.items) = Len(data.items)]_vars

\* One row has been brought to 0 with the minus control next to a row whose typed
\* quantity is negative.
C25_Witness ==
    /\ lastStep = "updateItem"
    /\ Len(data.items) = 2
    /\ \E i, j \in 1..2 : data.items[i].qty = 0 /\ data.items[j].qty = -2

\* C26: the tax rate held in the settings form, the one saved in the appSettings
\* record and the one the invoice editor loaded are between 0 and 100 inclusive.
C26_TaxRateInRange ==
    /\ svSettings.taxRate \in 0..100
    /\ localStorage["appSettings"] # Null => localStorage["appSettings"][1].taxRate \in 0..100
    /\ settings.taxRate \in 0..100

\* C27: an edit of a settings field (logo, colour, tax rate, image-column flag,
\* table configuration) leaves the store as it is; Save writes the in-memory
\* settings to appSettings and nothing else; the invoice editor holds what the
\* load of the appSettings record gave when it was mounted, whatever is edited or
\* saved afterwards.
C27_SettingsSavedOnlyBySave ==
    [][/\ lastStep' \in {"setSettings", "updateTableConfig", "handleLogoUpload:await",
                         "handleLogoUpload", "handleLogoUpload:rejected"} =>
             localStorage' = localStorage
       /\ lastStep' = "handleSave" =>
             /\ localStorage'["appSettings"] = Some(svSettings)
             /\ svSettings' = svSettings
             /\ localStorage'["products"] = localStorage["products"]
             /\ localStorage'["invoiceDrafts"] = localStorage["invoiceDrafts"]
       /\ (activeTab' = "invoice" /\ activeTab # "invoice") =>
             settings' = mountedSettings(localStorage)
       /\ (activeTab' = "invoice" /\ activeTab = "invoice") => settings' = settings]_vars

\* The editor has been opened after a logo and a tax rate were saved, and shows them.
C27_Witness ==
    /\ activeTab = "invoice"
    /\ settings.companyLogo = fileToBase64(ImageFile)
    /\ settings.taxRate = 10
    /\ settings.tableConfig.imageWidth = 30

\* C28: whenever the invoice tab is opened the in-memory invoice has no draft id,
\* the initial header fields, and exactly one item, which is blank (no productId,
\* price 0, quantity 1): nothing of the invoice that was open before is left,
\* while the drafts that were saved are listed again.
C28_EditorOpensBlank ==
    [][(activeTab' = "invoice" /\ activeTab # "invoice") =>
          /\ ~Has(data', "id")
          /\ Len(data'.items) = 1
          /\ data'.items[1].productId = Undefined
          /\ data'.items[1].price = 0
          /\ data'.items[1].qty = 1
          /\ data'.items[1].itemCode = "" /\ data'.items[1].description = ""
          /\ \A f \in {"customerName", "reference", "date", "footerNote"} :
                data'[f] = InitialData[f]
          /\ savedDrafts' = StoredIn(localStorage, "invoiceDrafts")]_vars

\* The invoice tab has been opened again after an invoice with another reference
\* was saved as a draft: the editor shows the initial reference and no draft id.
C28_Witness ==
    /\ lastStep = "setActiveTab"
    /\ activeTab = "invoice"
    /\ Len(savedDrafts) = 1
    /\ savedDrafts[1].reference = "INV-7"
    /\ data.reference = "Offer references"
    /\ ~Has(data, "id")

\* C29: a header edit, addItem, updateItem or removeItem on the in-memory invoice
\* leaves the drafts collection and the invoiceDrafts record as they are, the entry
\* of the loaded draft included, and leaves the invoice the id it was loaded with.
C29_EditsLeaveTheDraft ==
    [][lastStep' \in {"updateField", "addItem", "updateItem", "removeItem"} =>
          /\ Len(savedDrafts') = Len(savedDrafts)
          /\ \A i \in 1..Len(savedDrafts) : savedDrafts'[i] = savedDrafts[i]
          /\ localStorage'["invoiceDrafts"] = localStorage["invoiceDrafts"]
          /\ Has(data, "id") => (Has(data', "id") /\ data'.id = data.id)]_vars

\* The older of two drafts was loaded and has been edited since: a row was removed
\* and the reference retyped, while its entry still holds what was saved.
C29_Witness ==
    /\ Len(savedDrafts) = 2
    /\ Has(data, "id") /\ data.id = savedDrafts[2].id
    /\ lastStep = "removeItem"
    /\ data.reference # savedDrafts[2].reference
    /\ Len(data.items) < Len(savedDrafts[2].items)
    /\ StoredIn(localStorage, "invoiceDrafts") = StringifyDrafts(savedDrafts)

\* C30: when the encoding of an image chosen in the edit modal finishes, the modal
\* that is still open keeps the code, name, description and price it shows and
\* takes the new image, and a modal that was closed meanwhile stays closed.
C30_ImageUploadKeepsEdits ==
    [][\A i \in 1..MaxEncodings :
          handleEditImageUploadDone(i, TRUE) =>
             /\ editingProduct = Null => editingProduct' = Null
             /\ editingProduct # Null =>
                   /\ editingProduct' # Null
                   /\ \A f \in {"id", "code", "name", "description", "price"} :
                         editingProduct'[1][f] = editingProduct[1][f]
                   /\ editingProduct'[1].image = fileToBase64(encodings[i].file)]_vars

====
